---- MODULE Spec2Model ----
(***************************************************************************)
(* Model of the giphy-search client: the GiphySearchProvider               *)
(* (src/src/context/GiphySearchContext.tsx), the GiphySearch view that     *)
(* consumes it (src/src/components/GiphySearch.tsx) and the calls they     *)
(* leave in flight on the browser's event loop.                            *)
(*                                                                         *)
(* One step of the model is one task of the event loop: a user event, the  *)
(* arrival of an HTTP response, or the firing of a timer, together with    *)
(* the promise continuations (microtasks) that task makes runnable.  The   *)
(* state setters called in one continuation are applied together, as       *)
(* React 18 batches them (src/README.md line 17).                          *)
(*                                                                         *)
(* Spec is the provider under any consumer; AnimSpec and AnimLive are the  *)
(* placeholder animator (src/src/hooks/useAnimatedPlaceHolder.ts) under    *)
(* any owner; ViewSpec is the GiphySearch view with everything it owns;    *)
(* StandaloneSpec is the pair of standalone handlers of src/src/utils,     *)
(* which share the promise of utils/minDelay.ts.                           *)
(***************************************************************************)
EXTENDS Integers, Sequences, FiniteSets, TLC

VARIABLES
    loading,    \* useState<boolean>(false)       GiphySearchContext.tsx:10
    error,      \* useState<string>('')           GiphySearchContext.tsx:11
    gifs,       \* useState<GifObject[]>([])      GiphySearchContext.tsx:12
    query,      \* useState<string>('')           GiphySearch.tsx:10
    calls,      \* the provider calls started so far, in start order
    mounted,    \* whether the GiphySearch view has mounted (its effect has run)
    lastOp,     \* history: the task that produced the current state
    committed,  \* history: a call wrote gifs/error since loading last went from false to true
    phrases,    \* the argument of useAnimatedPlaceHolder
    placeholder, \* useState<string>('')          useAnimatedPlaceHolder.ts:5
    isDeleted,  \* useState<boolean>(false)       useAnimatedPlaceHolder.ts:6
    index,      \* useState<number>(0)            useAnimatedPlaceHolder.ts:7
    timers,     \* the setTimeout timers of the animator that are pending
    timeout,    \* the timer the last run of the animator's effect holds for its cleanup
    animated,   \* whether an instance of the animator hook is mounted
    instance,   \* history: the number of animator instances mounted so far
    clipboard,  \* the text on the system clipboard
    minDelay,   \* the module-level promise of utils/minDelay.ts: pending | resolved
    now,        \* the time since utils/minDelay.ts was loaded, in clock ticks
    spans       \* history: when each call of a standalone handler started and settled

\* the fetch state, the view's query and the calls in flight
fetchVars == <<loading, error, gifs, query, calls, mounted, lastOp, committed>>

\* the placeholder animator
animVars == <<phrases, placeholder, isDeleted, index, timers, timeout, animated, instance>>

\* the standalone handlers' delay gate and the clock
gateVars == <<minDelay, now, spans>>

vars == <<loading, error, gifs, query, calls, mounted, lastOp, committed,
          phrases, placeholder, isDeleted, index, timers, timeout, animated, instance,
          clipboard, minDelay, now, spans>>

(***************************************************************************)
(* Bounds and input sets                                                   *)
(***************************************************************************)
\* provider calls (searchGifs + fetchTrendingGifs) started in one run
MaxCalls == 3

\* process.env.REACT_APP_GIPHY_API_KEY
API_KEY == "key"

\* the delay handed to withMinDelay, in ms
delayTime == 1000

\* the result-count cap sent with both requests
limit == 50

\* query texts: a string is the sequence of its characters
Queries == { <<>>, <<" ">>, <<"a">>, <<" ", "a">> }

\* JavaScript values stored in gifs / found in response.data.data
JsArray(l) == [tag |-> "array", elems |-> l]
JsUndefined == [tag |-> "undefined"]

\* lists of GifObject (by id) an endpoint may answer with, in server order
GifLists == { <<"g1">>, <<"g2", "g1">> }

\* response.data of a resolved axios.get: an empty (falsy) body, a body
\* without the data field, or a body { data: GifObject[] }
NoBody == [truthy |-> FALSE]
Bodies == {NoBody} \cup {[truthy |-> TRUE, data |-> JsUndefined]}
             \cup {[truthy |-> TRUE, data |-> JsArray(l)] : l \in GifLists}

\* error.message of a rejected axios.get
Causes == {"Network Error", "Request failed with status code 500"}

(***************************************************************************)
(* String helpers                                                          *)
(***************************************************************************)
IsSpace(ch) == ch = " "

\* String.prototype.trim on a sequence of characters
RECURSIVE TrimLeft(_)
TrimLeft(s) == IF s # <<>> /\ IsSpace(Head(s)) THEN TrimLeft(Tail(s)) ELSE s

RECURSIVE TrimRight(_)
TrimRight(s) ==
    IF s # <<>> /\ IsSpace(s[Len(s)]) THEN TrimRight(SubSeq(s, 1, Len(s) - 1)) ELSE s

trim(s) == TrimRight(TrimLeft(s))

\* !query.trim(): the empty string is the only falsy string
IsBlank(q) == trim(q) = <<>>

(***************************************************************************)
(* Calls in flight                                                         *)
(***************************************************************************)
\* The request axios.get issues and the timer withMinDelay starts.
NewCall(kind, params) ==
    [ kind    |-> kind,          \* "trending" | "search": the endpoint
      params  |-> params,        \* the request's query parameters
      adapter |-> "pending",     \* the axios promise: pending | resolved | rejected
      body    |-> NoBody,        \* response.data once resolved
      cause   |-> "",            \* error.message once rejected
      delay   |-> delayTime,     \* the setTimeout delay of the call's minDelay
      timer   |-> "pending",     \* the call's setTimeout: pending | fired
      settled |-> "no" ]         \* "no" | "committed" | "failed": how the call ended

NoParams == [sent |-> FALSE]

\* search parameters built from the trimmed query
SearchParamsTrimmed(q) == [api_key |-> API_KEY, q |-> trim(q), limit |-> limit]

TrendingParams == [api_key |-> API_KEY, limit |-> limit]

SearchParams(q) == [api_key |-> API_KEY, q |-> q, limit |-> limit]

Ids == DOMAIN calls
Pending(i) == calls[i].settled = "no"
InFlight(kind) == {i \in Ids : calls[i].kind = kind /\ Pending(i)}

\* withMinDelay as a race: the response alone settles the await
withMinDelayRace(c) ==
    IF c.adapter = "rejected" THEN "rejected"
    ELSE IF c.adapter = "resolved" THEN "resolved"
    ELSE "pending"

\* withMinDelay whose timer is a timeout: it rejects a request still pending
withMinDelayTimeout(c) ==
    IF c.adapter = "rejected" THEN "rejected"
    ELSE IF c.adapter = "pending" /\ c.timer = "fired" THEN "rejected"
    ELSE IF c.adapter = "resolved" /\ c.timer = "fired" THEN "resolved"
    ELSE "pending"

\* withMinDelay over Promise.allSettled: a rejection too waits for the timer
withMinDelayAllSettled(c) ==
    IF c.timer = "pending" \/ c.adapter = "pending" THEN "pending"
    ELSE IF c.adapter = "rejected" THEN "rejected"
    ELSE "resolved"

\* Promise.all([promise, minDelay]) of call c: rejects as soon as the request
\* rejects (the timer never rejects), resolves once both have resolved.
withMinDelay(c) ==
    IF c.adapter = "rejected" THEN "rejected"
    ELSE IF c.adapter = "resolved" /\ c.timer = "fired" THEN "resolved"
    ELSE "pending"

(***************************************************************************)
(* The provider: GiphySearchContext.tsx                                    *)
(***************************************************************************)
\* the trending message written with the search handler's text
TrendingErrorCopied(message) == "Failed to search for a GIF: " \o message

TrendingError(message) == "Failed to fetch trending GIFs: " \o message
SearchError(message) == "Failed to search for a GIF: " \o message

\* What the try block of a call does once its await has settled:
\* "committed" when it reached setGifs, "failed" when it threw.
Outcome(c) ==
    IF withMinDelay(c) = "resolved" /\ c.body.truthy THEN "committed" ELSE "failed"

\* error.message seen by the catch block of call c
Message(c, noData) == IF withMinDelay(c) = "rejected" THEN c.cause ELSE noData

\* fetchTrendingGifs without its finally block
TrendingContinuationNoFinally(c) ==
    /\ gifs' = IF Outcome(c) = "committed" THEN c.body.data ELSE gifs
    /\ error' = IF Outcome(c) = "committed" THEN error
                ELSE TrendingError(Message(c, "No data when fetch trending GIFs"))
    /\ loading' = loading

\* fetchTrendingGifs that adds the fetched list to the list on display
TrendingContinuationAppending(c) ==
    /\ gifs' = IF Outcome(c) = "committed"
               THEN IF c.body.data.tag = "array" /\ gifs.tag = "array"
                    THEN JsArray(gifs.elems \o c.body.data.elems)
                    ELSE c.body.data
               ELSE gifs
    /\ error' = IF Outcome(c) = "committed" THEN error
                ELSE TrendingError(Message(c, "No data when fetch trending GIFs"))
    /\ loading' = FALSE

\* fetchTrendingGifs after its await: try / catch / finally
TrendingContinuation(c) ==
    /\ gifs' = IF Outcome(c) = "committed" THEN c.body.data ELSE gifs
    /\ error' = IF Outcome(c) = "committed" THEN error
                ELSE TrendingError(Message(c, "No data when fetch trending GIFs"))
    /\ loading' = FALSE

\* handleSearch whose catch block also drops the results on display
SearchContinuationClearing(c) ==
    /\ gifs' = IF Outcome(c) = "committed" THEN c.body.data ELSE JsArray(<<>>)
    /\ error' = IF Outcome(c) = "committed" THEN error
                ELSE SearchError(Message(c, "No data when search for a GIF"))
    /\ loading' = FALSE

\* handleSearch without its finally block
SearchContinuationNoFinally(c) ==
    /\ gifs' = IF Outcome(c) = "committed" THEN c.body.data ELSE gifs
    /\ error' = IF Outcome(c) = "committed" THEN error
                ELSE SearchError(Message(c, "No data when search for a GIF"))
    /\ loading' = loading

\* handleSearch after its await: try / catch / finally
SearchContinuation(c) ==
    /\ gifs' = IF Outcome(c) = "committed" THEN c.body.data ELSE gifs
    /\ error' = IF Outcome(c) = "committed" THEN error
                ELSE SearchError(Message(c, "No data when search for a GIF"))
    /\ loading' = FALSE

\* an async function without its catch block: a throw rejects its promise
AsyncResultNoCatch(c) ==
    IF c.settled = "no" THEN "pending"
    ELSE IF c.settled = "failed" THEN "rejected"
    ELSE "resolved"

\* The promise fetchTrendingGifs / handleSearch returned for call c: whatever
\* the try block throws is handled by the catch block, which throws nothing,
\* so the promise resolves as soon as the continuation has run.
AsyncResult(c) == IF c.settled = "no" THEN "pending" ELSE "resolved"

\* The record of a call whose continuation has run: response and error are
\* locals of the continuation and are gone with it.
Retire(c) == [c EXCEPT !.settled = Outcome(c), !.body = NoBody, !.cause = ""]

\* The request of a call is in flight until its response or failure arrives.
Answered(c) == [c EXCEPT !.params = NoParams]

\* Deliver with an automatic retry: a failed call issues its request again
DeliverRetry(i, c) ==
    IF Pending(i) /\ withMinDelay(c) # "pending" /\ Outcome(c) = "failed"
    THEN /\ calls' = [calls EXCEPT ![i] = [c EXCEPT !.adapter = "pending", !.cause = "",
                                                   !.body = NoBody]]
         /\ UNCHANGED <<loading, error, gifs, committed>>
    ELSE IF Pending(i) /\ withMinDelay(c) # "pending"
    THEN /\ IF c.kind = "trending" THEN TrendingContinuation(c) ELSE SearchContinuation(c)
         /\ calls' = [calls EXCEPT ![i] = Retire(c)]
         /\ committed' = TRUE
    ELSE /\ calls' = [calls EXCEPT ![i] = c]
         /\ UNCHANGED <<loading, error, gifs, committed>>

\* Deliver with a generation token: only the call started last may write
DeliverLatestOnly(i, c) ==
    IF Pending(i) /\ withMinDelay(c) # "pending"
    THEN /\ IF i = Len(calls)
            THEN IF c.kind = "trending" THEN TrendingContinuation(c)
                                        ELSE SearchContinuation(c)
            ELSE UNCHANGED <<loading, error, gifs>>
         /\ calls' = [calls EXCEPT ![i] = Retire(c)]
         /\ committed' = TRUE
    ELSE /\ calls' = [calls EXCEPT ![i] = c]
         /\ UNCHANGED <<loading, error, gifs, committed>>

\* The microtasks run by the event that settles the join of call i, whose
\* record after the event is c; an event that leaves the join pending only
\* updates the record.
Deliver(i, c) ==
    IF Pending(i) /\ withMinDelay(c) # "pending"
    THEN /\ IF c.kind = "trending" THEN TrendingContinuation(c) ELSE SearchContinuation(c)
         /\ calls' = [calls EXCEPT ![i] = Retire(c)]
         /\ committed' = TRUE
    ELSE /\ calls' = [calls EXCEPT ![i] = c]
         /\ UNCHANGED <<loading, error, gifs, committed>>

\* fetchTrendingGifs that leaves the loading flag alone
fetchTrendingGifsNoLoading ==
    /\ Len(calls) < MaxCalls
    /\ calls' = Append(calls, NewCall("trending", TrendingParams))
    /\ UNCHANGED <<loading, error, gifs, committed>>

\* fetchTrendingGifs up to its await: setLoading(true), the request, the timer
fetchTrendingGifs ==
    /\ Len(calls) < MaxCalls
    /\ loading' = TRUE
    /\ calls' = Append(calls, NewCall("trending", TrendingParams))
    /\ committed' = IF loading THEN committed ELSE FALSE
    /\ UNCHANGED <<error, gifs>>

\* handleSearch that abandons the searches still pending (latest search only)
handleSearchLatestOnly(q) ==
    /\ Len(calls) < MaxCalls
    /\ calls' = Append([i \in Ids |->
                           IF calls[i].kind = "search" /\ Pending(i)
                           THEN [calls[i] EXCEPT !.settled = "failed"] ELSE calls[i]],
                       NewCall("search", SearchParams(q)))
    /\ UNCHANGED <<loading, error, gifs, committed>>

\* handleSearch (the context's searchGifs) up to its await: the request, the timer
handleSearch(q) ==
    /\ Len(calls) < MaxCalls
    /\ calls' = Append(calls, NewCall("search", SearchParams(q)))
    /\ UNCHANGED <<loading, error, gifs, committed>>

\* clearError that resets the whole fetch state
clearErrorReset ==
    /\ error' = ""
    /\ loading' = FALSE
    /\ UNCHANGED <<gifs, calls, committed>>

clearError ==
    /\ error' = ""
    /\ UNCHANGED <<loading, gifs, calls, committed>>

(***************************************************************************)
(* The context and its lookup: useGiphySearchContext                       *)
(***************************************************************************)
\* createContext<GiphyContextObject | undefined>(undefined)
DefaultContext == JsUndefined

\* the state part of the value the provider hands to its children
ProviderValue == [loading |-> loading, error |-> error, gifs |-> gifs]

\* useContext(GiphySearchContext) in a component inside / outside the provider
useContext(inside) == IF inside THEN ProviderValue ELSE DefaultContext

\* a lookup that hands on whatever the context holds
useGiphySearchContextNoCheck(context) == [threw |-> FALSE, value |-> context]

\* the hook applied to the context value it read: throw or return
useGiphySearchContext(context) ==
    IF context = JsUndefined
    THEN [threw |-> TRUE, message |-> "Context must be used with a GiphySearchContext"]
    ELSE [threw |-> FALSE, value |-> context]

(***************************************************************************)
(* The placeholder animator: useAnimatedPlaceHolder.ts                     *)
(*                                                                         *)
(* The hook keeps three pieces of state and one effect over them.  A run   *)
(* of the effect belongs to a render: React first runs the cleanup of the  *)
(* previous run (clearTimeout of the timer that run held) and then the     *)
(* body, which starts at most one timer.  A timer that fires calls one     *)
(* setter; when the value changes the hook renders again and the effect    *)
(* re-runs.  The body's second branch starts no timer and calls two        *)
(* setters itself: it runs after the render it belongs to has been         *)
(* painted, so the state it finds is a state on display.                   *)
(***************************************************************************)
\* animator instances mounted in one run
MaxInstances == 2

\* how long a full phrase is held, in ms
pauseDuration == 1500

\* the two speeds the wrong way round
speedSwapped(deleting) == IF deleting THEN 130 ELSE 80

\* const speed = isDeleted ? 80 : 130
speed(deleting) == IF deleting THEN 80 ELSE 130

\* phrase lists handed to the hook: a string is the sequence of its characters
PhraseLists ==
    { << <<"a", "b">>, <<"c", "d">> >>,
      << <<"a">> >>,
      << <<>>, <<"a">> >>,
      << <<"a", "b", "c">>, <<"b">> >> }

\* the phrases the GiphySearch view hands to the hook, cut down to two short ones
ViewPhrases == << <<"a", "b">>, <<"c", "d">> >>

\* String.prototype.substring(from, to): both ends are clamped to 0..length
\* and swapped when from > to
Clamp(n, len) == IF n < 0 THEN 0 ELSE IF n > len THEN len ELSE n
substring(str, from, to) ==
    LET a == Clamp(from, Len(str))
        b == Clamp(to, Len(str))
    IN  SubSeq(str, (IF a < b THEN a ELSE b) + 1, IF a < b THEN b ELSE a)

\* let timeout: NodeJS.Timeout, never assigned
NoTimer == [delay |-> 0, sets |-> "none", text |-> <<>>]

\* clearTimeout that cancels nothing
clearTimeoutNoop(pending, t) == pending

\* clearTimeout(timeout): the timer is no longer pending; clearTimeout of
\* undefined or of a timer that has fired does nothing
clearTimeout(pending, t) == pending \ {t}

\* an effect body whose deleting tick drops the whole text at once
useEffectDeleteAll(text, deleting, i) ==
    LET current == phrases[i + 1]
    IN  IF ~deleting /\ text = current
        THEN [delay |-> pauseDuration, sets |-> "isDeleted", text |-> <<>>]
        ELSE IF deleting /\ text = <<>>
        THEN NoTimer
        ELSE [ delay |-> speed(deleting),
               sets  |-> "placeholder",
               text  |-> IF deleting
                         THEN substring(current, 0, 0)
                         ELSE substring(current, 0, Len(text) + 1) ]

\* an effect body that holds a full phrase for one typing tick only
useEffectShortPause(text, deleting, i) ==
    LET current == phrases[i + 1]
    IN  IF ~deleting /\ text = current
        THEN [delay |-> speed(FALSE), sets |-> "isDeleted", text |-> <<>>]
        ELSE IF deleting /\ text = <<>>
        THEN NoTimer
        ELSE [ delay |-> speed(deleting),
               sets  |-> "placeholder",
               text  |-> IF deleting
                         THEN substring(current, 0, Len(text) - 1)
                         ELSE substring(current, 0, Len(text) + 1) ]

\* The body of the effect for the rendered state (text, deleting, i): the
\* timer it starts, with the setter and the value its callback will pass
\* (the callback reads only what it captured: current, placeholder.length
\* and isDeleted), or NoTimer in the branch that starts none.
useEffect(text, deleting, i) ==
    LET current == phrases[i + 1]
    IN  IF ~deleting /\ text = current
        THEN [delay |-> pauseDuration, sets |-> "isDeleted", text |-> <<>>]
        ELSE IF deleting /\ text = <<>>
        THEN NoTimer
        ELSE [ delay |-> speed(deleting),
               sets  |-> "placeholder",
               text  |-> IF deleting
                         THEN substring(current, 0, Len(text) - 1)
                         ELSE substring(current, 0, Len(text) + 1) ]

\* The effect after a render with the state (text, deleting, i), out of the
\* timers left pending: the cleanup of the previous run, then the body.
RunEffect(left, text, deleting, i) ==
    LET t == useEffect(text, deleting, i)
    IN  /\ timers' = clearTimeout(left, timeout) \cup (IF t = NoTimer THEN {} ELSE {t})
        /\ timeout' = t

\* a mount that takes over the state the previous instance stopped in
AnimatorMountResume ==
    /\ ~animated
    /\ instance < MaxInstances
    /\ animated' = TRUE
    /\ instance' = instance + 1
    /\ UNCHANGED <<placeholder, isDeleted, index>>
    /\ RunEffect(timers, placeholder, isDeleted, index)
    /\ UNCHANGED phrases

\* useAnimatedPlaceHolder(phrases) in a component that mounts: the three
\* useState initial values, then the first run of the effect
AnimatorMount ==
    /\ ~animated
    /\ instance < MaxInstances
    /\ animated' = TRUE
    /\ instance' = instance + 1
    /\ placeholder' = <<>>
    /\ isDeleted' = FALSE
    /\ index' = 0
    /\ RunEffect(timers, <<>>, FALSE, 0)
    /\ UNCHANGED phrases

\* the owning component unmounts: the cleanup of the last run of the effect
AnimatorUnmount ==
    /\ animated
    /\ animated' = FALSE
    /\ timers' = clearTimeout(timers, timeout)
    /\ timeout' = NoTimer
    /\ UNCHANGED <<phrases, placeholder, isDeleted, index, instance>>

\* Timer t fires and its callback calls its setter.  A setter called with a
\* new value renders the hook again and the effect re-runs; called with the
\* value the state already has, or after the unmount, it does nothing.
AnimatorTick(t) ==
    /\ t \in timers
    /\ LET text     == IF animated /\ t.sets = "placeholder" THEN t.text ELSE placeholder
           deleting == IF animated /\ t.sets = "isDeleted" THEN TRUE ELSE isDeleted
       IN  /\ placeholder' = text
           /\ isDeleted' = deleting
           /\ IF <<text, deleting>> = <<placeholder, isDeleted>>
              THEN timers' = timers \ {t} /\ UNCHANGED timeout
              ELSE RunEffect(timers \ {t}, text, deleting, index)
    /\ UNCHANGED <<phrases, index, animated, instance>>

\* an advance taken as soon as the deleting flag is set
AnimatorAdvanceEarly ==
    /\ animated
    /\ isDeleted
    /\ index' = (index + 1) % Len(phrases)
    /\ isDeleted' = FALSE
    /\ RunEffect(timers, placeholder, FALSE, (index + 1) % Len(phrases))
    /\ UNCHANGED <<phrases, placeholder, animated, instance>>

\* an advance that forgets setIsDeleted(false)
AnimatorAdvanceKeepFlag ==
    /\ animated
    /\ isDeleted /\ placeholder = <<>>
    /\ index' = (index + 1) % Len(phrases)
    /\ RunEffect(timers, placeholder, isDeleted, (index + 1) % Len(phrases))
    /\ UNCHANGED <<phrases, placeholder, isDeleted, animated, instance>>

\* an advance that never wraps: the index runs past the last phrase
AnimatorAdvanceNoWrap ==
    /\ animated
    /\ isDeleted /\ placeholder = <<>>
    /\ index' = index + 1
    /\ isDeleted' = FALSE
    /\ IF index + 1 < Len(phrases)
       THEN RunEffect(timers, placeholder, FALSE, index + 1)
       ELSE timers' = clearTimeout(timers, timeout) /\ timeout' = NoTimer
    /\ UNCHANGED <<phrases, placeholder, animated, instance>>

\* The run of the effect that finds the text deleted: setIndex and
\* setIsDeleted(false), applied together, then the render and the effect of
\* the new state.
AnimatorAdvance ==
    /\ animated
    /\ isDeleted /\ placeholder = <<>>
    /\ index' = (index + 1) % Len(phrases)
    /\ isDeleted' = FALSE
    /\ RunEffect(timers, placeholder, FALSE, (index + 1) % Len(phrases))
    /\ UNCHANGED <<phrases, placeholder, animated, instance>>

\* no animator instance has been mounted over the phrase list ps
AnimatorIdle(ps) ==
    /\ phrases = ps
    /\ placeholder = <<>>
    /\ isDeleted = FALSE
    /\ index = 0
    /\ timers = {}
    /\ timeout = NoTimer
    /\ animated = FALSE
    /\ instance = 0

(***************************************************************************)
(* The GiphySearch view and the tasks of the event loop                    *)
(***************************************************************************)
Op(name, id) == [op |-> name, id |-> id]

\* a mount whose effect runs twice (as under a development double render)
MountTwice ==
    /\ ~mounted
    /\ mounted' = TRUE
    /\ Len(calls) + 2 <= MaxCalls
    /\ loading' = TRUE
    /\ calls' = Append(Append(calls, NewCall("trending", TrendingParams)),
                       NewCall("trending", TrendingParams))
    /\ committed' = FALSE
    /\ lastOp' = Op("mount", Len(calls'))
    /\ UNCHANGED <<error, gifs, query>>

\* useEffect(() => { fetchTrendingGifs() }, [API_KEY]) on mount
Mount ==
    /\ ~mounted
    /\ mounted' = TRUE
    /\ fetchTrendingGifs
    /\ lastOp' = Op("mount", Len(calls'))
    /\ UNCHANGED query

\* onChange={(e) => setQuery(e.target.value)}
setQuery(q) ==
    /\ mounted
    /\ query' = q
    /\ lastOp' = Op("setQuery", 0)
    /\ UNCHANGED <<loading, error, gifs, calls, mounted, committed>>

\* the form's onSubmit: onSearch() calls searchGifs(query)
onSearch ==
    /\ mounted
    /\ handleSearch(query)
    /\ lastOp' = Op("searchGifs", Len(calls'))
    /\ UNCHANGED <<query, mounted>>

\* a consumer calls the context's searchGifs
searchGifs(q) ==
    /\ mounted
    /\ handleSearch(q)
    /\ lastOp' = Op("searchGifs", Len(calls'))
    /\ UNCHANGED <<query, mounted>>

\* a consumer calls the context's fetchTrendingGifs
LoadTrending ==
    /\ mounted
    /\ fetchTrendingGifs
    /\ lastOp' = Op("fetchTrendingGifs", Len(calls'))
    /\ UNCHANGED <<query, mounted>>

\* a consumer calls the context's clearError
DismissError ==
    /\ mounted
    /\ clearError
    /\ lastOp' = Op("clearError", 0)
    /\ UNCHANGED <<query, mounted>>

\* the response of call i arrives: axios.get resolves with body b
AdapterResolve(i, b) ==
    /\ calls[i].adapter = "pending"
    /\ Deliver(i, [Answered(calls[i]) EXCEPT !.adapter = "resolved", !.body = b])
    /\ lastOp' = Op("resolve", i)
    /\ UNCHANGED <<query, mounted>>

\* the request of call i fails: axios.get rejects with message m
AdapterReject(i, m) ==
    /\ calls[i].adapter = "pending"
    /\ Deliver(i, [Answered(calls[i]) EXCEPT !.adapter = "rejected", !.cause = m])
    /\ lastOp' = Op("reject", i)
    /\ UNCHANGED <<query, mounted>>

\* the setTimeout of call i fires; timers of equal delay fire in start order
TimerFire(i) ==
    /\ calls[i].timer = "pending"
    /\ \A j \in Ids : j < i => calls[j].timer = "fired"
    /\ Deliver(i, [calls[i] EXCEPT !.timer = "fired"])
    /\ lastOp' = Op("timer", i)
    /\ UNCHANGED <<query, mounted>>

\* the provider and the view before the view mounts
FetchInit ==
    /\ loading = FALSE
    /\ error = ""
    /\ gifs = JsArray(<<>>)
    /\ query = <<>>
    /\ calls = <<>>
    /\ mounted = FALSE
    /\ lastOp = Op("init", 0)
    /\ committed = FALSE

\* nothing has been copied
ClipboardInit == clipboard = ""

\* utils/minDelay.ts has just been loaded: its timer is pending
GateInit ==
    /\ minDelay = "pending"
    /\ now = 0
    /\ spans = <<>>

\* what a specification of one part of the program leaves alone
animatorIdle == UNCHANGED <<animVars, clipboard, gateVars>>

Init ==
    /\ FetchInit
    /\ AnimatorIdle(ViewPhrases)
    /\ ClipboardInit
    /\ GateInit

Next ==
    \/ Mount /\ animatorIdle
    \/ \E q \in Queries : searchGifs(q) /\ animatorIdle
    \/ LoadTrending /\ animatorIdle
    \/ DismissError /\ animatorIdle
    \/ \E i \in Ids, b \in Bodies : AdapterResolve(i, b) /\ animatorIdle
    \/ \E i \in Ids, m \in Causes : AdapterReject(i, m) /\ animatorIdle
    \/ \E i \in Ids : TimerFire(i) /\ animatorIdle

Spec == Init /\ [][Next]_vars

(***************************************************************************)
(* The animator on its own: any owner mounts and unmounts the hook         *)
(***************************************************************************)
\* what a step of the animator leaves alone
fetchIdle ==
    UNCHANGED <<loading, error, gifs, query, calls, mounted, committed, clipboard, gateVars>>

\* a component calling the hook mounts
MountHook ==
    /\ AnimatorMount
    /\ lastOp' = Op("animatorMount", instance')
    /\ fetchIdle

\* the component calling the hook unmounts
UnmountHook ==
    /\ AnimatorUnmount
    /\ lastOp' = Op("animatorUnmount", instance)
    /\ fetchIdle

\* the task of an animator timer that is due
TimerTask(t) ==
    /\ AnimatorTick(t)
    /\ lastOp' = Op("tick", t.delay)
    /\ fetchIdle

\* the task that runs the effect of a render with the text deleted
EffectTask ==
    /\ AnimatorAdvance
    /\ lastOp' = Op("advance", index)
    /\ fetchIdle

AnimInit ==
    /\ FetchInit
    /\ \E ps \in PhraseLists : AnimatorIdle(ps)
    /\ ClipboardInit
    /\ GateInit

AnimNext ==
    \/ MountHook
    \/ UnmountHook
    \/ \E t \in timers : TimerTask(t)
    \/ EffectTask

AnimSpec == AnimInit /\ [][AnimNext]_vars

\* The event loop runs every task that is due: a pending timer fires and a
\* pending effect runs.
AnimLive ==
    /\ AnimSpec
    /\ WF_vars(\E t \in timers : TimerTask(t))
    /\ WF_vars(EffectTask)

(***************************************************************************)
(* The GiphySearch view as a whole: its query, its animator, its effect,   *)
(* its form and its copy buttons, over the provider                        *)
(***************************************************************************)
\* searches submitted through the form in one run
MaxSubmits == 1

\* texts typed into the search input
ViewQueries == { <<>>, <<" ", "a", " ">> }

\* gif.bitly_url of the GifObject with this id
bitly_url(gif) == "https://gph.is/" \o gif

\* The view is on the page: it has mounted and no render of it has thrown.
\* The animator instance lives exactly as long as the view does.
OnPage == mounted /\ animated

\* gifs.map(...) in the render that follows a change of the fetch state: it
\* throws when gifs is not an array, and with no error boundary above the
\* view React then unmounts the whole tree, running the effects' cleanups.
Render ==
    IF gifs'.tag = "array"
    THEN UNCHANGED animVars
    ELSE AnimatorUnmount

\* the cards on display: gifs.map((gif) => ...)
Displayed == IF gifs.tag = "array" THEN DOMAIN gifs.elems ELSE {}

\* copyToClipBoard that reports a failed write in the fetch state
copyToClipBoardReporting(url, ok) ==
    /\ clipboard' = IF ok THEN url ELSE clipboard
    /\ error' = IF ok THEN error ELSE "Failed to copy"
    /\ UNCHANGED <<loading, gifs, query, calls, mounted, committed>>

\* copyToClipBoard(url): navigator.clipboard.writeText(url), whose promise
\* nobody awaits, then the alert; ok tells whether the write succeeds
copyToClipBoard(url, ok) ==
    /\ clipboard' = IF ok THEN url ELSE clipboard
    /\ UNCHANGED <<loading, error, gifs, query, calls, mounted, committed>>

\* the component mounts: the animator hook, then the effect that loads trending
ViewMount ==
    /\ Mount
    /\ AnimatorMount
    /\ UNCHANGED <<clipboard, gateVars>>

\* the user edits the search input
ChangeQuery(q) ==
    /\ OnPage
    /\ q # query
    /\ setQuery(q)
    /\ UNCHANGED <<animVars, clipboard, gateVars>>

\* the user submits the form
Submit ==
    /\ OnPage
    /\ Cardinality({i \in Ids : calls[i].kind = "search"}) < MaxSubmits
    /\ onSearch
    /\ UNCHANGED <<animVars, clipboard, gateVars>>

\* the user clicks the copy button of a GIF on display
Copy(i, ok) ==
    /\ OnPage
    /\ i \in Displayed
    /\ copyToClipBoard(bitly_url(gifs.elems[i]), ok)
    /\ lastOp' = Op(IF ok THEN "copy" ELSE "copyFailed", i)
    /\ UNCHANGED <<animVars, gateVars>>

\* the response of call i arrives while the view is on the page
ViewResolve(i, b) ==
    /\ OnPage
    /\ AdapterResolve(i, b)
    /\ Render
    /\ UNCHANGED <<clipboard, gateVars>>

\* the request of call i fails while the view is on the page
ViewReject(i, m) ==
    /\ OnPage
    /\ AdapterReject(i, m)
    /\ Render
    /\ UNCHANGED <<clipboard, gateVars>>

\* the delay timer of call i fires while the view is on the page
ViewTimer(i) ==
    /\ OnPage
    /\ TimerFire(i)
    /\ Render
    /\ UNCHANGED <<clipboard, gateVars>>

ViewNext ==
    \/ ViewMount
    \/ \E q \in ViewQueries : ChangeQuery(q)
    \/ Submit
    \/ \E i \in Displayed, ok \in BOOLEAN : Copy(i, ok)
    \/ \E i \in Ids, b \in Bodies : ViewResolve(i, b)
    \/ \E i \in Ids, m \in Causes : ViewReject(i, m)
    \/ \E i \in Ids : ViewTimer(i)
    \/ \E t \in timers : TimerTask(t)
    \/ EffectTask

ViewSpec == Init /\ [][ViewNext]_vars

(***************************************************************************)
(* The standalone handlers: utils/handleSearch.ts and handleTrendingGifs,  *)
(* which join their request with the one promise of utils/minDelay.ts.     *)
(* That promise is created, and its timer started, when the module is      *)
(* loaded.  Time is counted in clock ticks of half the delay.              *)
(***************************************************************************)
\* clock ticks in one run
MaxTicks == 3

\* calls of the standalone handlers in one run
MaxStandalone == 2

\* the length of a clock tick, in ms
TickMs == delayTime \div 2

\* the time the timer of utils/minDelay.ts is due at, in ms since the load
GateDue == delayTime

\* a call of a standalone handler: it starts no timer of its own
StandaloneCall(kind, params) ==
    [NewCall(kind, params) EXCEPT !.delay = 0, !.timer = "none"]

\* Promise.all([axios.get(...), minDelay]) of call c, the gate being as given
JoinShared(c, gate) ==
    IF c.adapter = "rejected" THEN "rejected"
    ELSE IF c.adapter = "resolved" /\ gate = "resolved" THEN "resolved"
    ELSE "pending"

\* the message a standalone handler stores for a response without body
StandaloneNoData(kind) ==
    IF kind = "search" THEN "Failed to fetch searched GIFS"
                       ELSE "Failed to fetch trending GIFS"

\* the message the catch block of a standalone handler stores
StandaloneCaught(kind) ==
    IF kind = "search" THEN "Failed to fetch searched GIFs"
                       ELSE "Failed to fetch trending GIFs"

\* how the call ends once its await has settled
StandaloneOutcome(c) ==
    IF c.adapter = "resolved" /\ c.body.truthy THEN "committed" ELSE "failed"

\* a settled call: when it started, when it settled
Close(span) == [span EXCEPT !.until = now]

\* The continuations run by an event after which the calls are cs and the
\* gate is as given: every call whose join has settled continues, in start
\* order, through try / catch / finally.
StandaloneDeliver(cs, gate) ==
    LET ready  == {i \in DOMAIN cs : cs[i].settled = "no" /\ JoinShared(cs[i], gate) # "pending"}
        wrote  == {i \in ready : StandaloneOutcome(cs[i]) = "committed"}
        failed == ready \ wrote
        last(S) == CHOOSE i \in S : \A j \in S : j <= i
    IN  /\ gifs' = IF wrote = {} THEN gifs ELSE cs[last(wrote)].body.data
        /\ error' = IF failed = {} THEN error
                    ELSE IF cs[last(failed)].adapter = "rejected"
                         THEN StandaloneCaught(cs[last(failed)].kind)
                         ELSE StandaloneNoData(cs[last(failed)].kind)
        /\ loading' = IF ready = {} THEN loading ELSE FALSE
        /\ calls' = [i \in DOMAIN cs |->
                        IF i \in ready
                        THEN [cs[i] EXCEPT !.settled = StandaloneOutcome(cs[i]),
                                           !.body = NoBody, !.cause = ""]
                        ELSE cs[i]]
        /\ spans' = [i \in DOMAIN cs |-> IF i \in ready THEN Close(spans[i]) ELSE spans[i]]

\* a standalone handler up to its await
StandaloneStart(kind, params) ==
    /\ Len(calls) < MaxStandalone
    /\ loading' = TRUE
    /\ error' = ""
    /\ calls' = Append(calls, StandaloneCall(kind, params))
    /\ spans' = Append(spans, [from |-> now, until |-> -1])
    /\ UNCHANGED <<gifs, minDelay, now>>

\* utils/handleSearch.ts: handleSearch(API_KEY, query, setLoading, setError, setGifs)
utilsHandleSearch(q) ==
    /\ IF IsBlank(q)
       THEN UNCHANGED <<loading, error, gifs, calls, minDelay, now, spans>>
       ELSE StandaloneStart("search", SearchParams(q))
    /\ lastOp' = Op("handleSearch", Len(calls'))
    /\ UNCHANGED <<query, mounted, committed, animVars, clipboard>>

\* handleTrendingGifs(API_KEY, setLoading, setError, setGifs)
handleTrendingGifs ==
    /\ StandaloneStart("trending", TrendingParams)
    /\ lastOp' = Op("handleTrendingGifs", Len(calls'))
    /\ UNCHANGED <<query, mounted, committed, animVars, clipboard>>

\* the response of standalone call i arrives
StandaloneResolve(i, b) ==
    /\ calls[i].adapter = "pending"
    /\ StandaloneDeliver([calls EXCEPT ![i] = [Answered(calls[i]) EXCEPT
                                                   !.adapter = "resolved", !.body = b]],
                         minDelay)
    /\ lastOp' = Op("resolve", i)
    /\ UNCHANGED <<query, mounted, committed, animVars, clipboard, minDelay, now>>

\* the request of standalone call i fails
StandaloneReject(i, m) ==
    /\ calls[i].adapter = "pending"
    /\ StandaloneDeliver([calls EXCEPT ![i] = [Answered(calls[i]) EXCEPT
                                                   !.adapter = "rejected", !.cause = m]],
                         minDelay)
    /\ lastOp' = Op("reject", i)
    /\ UNCHANGED <<query, mounted, committed, animVars, clipboard, minDelay, now>>

\* the timer of utils/minDelay.ts fires: resolve(true)
GateFire ==
    /\ minDelay = "pending"
    /\ now * TickMs >= GateDue
    /\ minDelay' = "resolved"
    /\ StandaloneDeliver(calls, "resolved")
    /\ lastOp' = Op("gate", 0)
    /\ UNCHANGED <<query, mounted, committed, animVars, clipboard, now>>

\* time passes; a timer that is due fires before more time passes
ClockTick ==
    /\ now < MaxTicks
    /\ ~(minDelay = "pending" /\ now * TickMs >= GateDue)
    /\ now' = now + 1
    /\ lastOp' = Op("clock", now')
    /\ UNCHANGED <<loading, error, gifs, query, calls, mounted, committed,
                   animVars, clipboard, minDelay, spans>>

StandaloneNext ==
    \/ \E q \in Queries : utilsHandleSearch(q)
    \/ handleTrendingGifs
    \/ \E i \in Ids, b \in Bodies : StandaloneResolve(i, b)
    \/ \E i \in Ids, m \in Causes : StandaloneReject(i, m)
    \/ GateFire
    \/ ClockTick

StandaloneSpec == Init /\ [][StandaloneNext]_vars

(***************************************************************************)
(* Vocabulary of the claims                                                *)
(***************************************************************************)
\* the step starts a call: the new call is the last of calls'
Starts(kind) ==
    /\ Len(calls') = Len(calls) + 1
    /\ calls'[Len(calls')].kind = kind

\* the step runs the continuation of call i, which ends as outcome
Settles(i, outcome) ==
    /\ i \in Ids
    /\ calls[i].settled = "no"
    /\ calls'[i].settled = outcome

\* the step stores in gifs the list call i fetched: the response the call was
\* holding while it waited for its timer, or the one arriving in the step
CommitsFetched(i) ==
    IF calls[i].adapter = "resolved" THEN gifs' = calls[i].body.data
    ELSE \E b \in Bodies : b.truthy /\ AdapterResolve(i, b) /\ gifs' = b.data

\* the current state was produced by the event (op, i) settling call i
JustSettled(i) ==
    /\ i \in Ids
    /\ lastOp.id = i
    /\ lastOp.op \in {"resolve", "reject", "timer"}
    /\ calls[i].settled # "no"
    /\ lastOp.op = "timer" => calls[i].adapter = "resolved"

(***************************************************************************)
(* C1: for every non-blank query, searchGifs(query) first makes loading    *)
(* true; when the call later settles loading is false and either gifs is   *)
(* the fetched list and error is empty, or error is set and gifs is        *)
(* unchanged.  (The safety part of the claim: what the start and the       *)
(* settlement of a search do.)                                             *)
(***************************************************************************)
C1_SubmitSearch ==
    [][ /\ \A q \in Queries : (~IsBlank(q) /\ searchGifs(q)) => loading' = TRUE
        /\ \A i \in Ids :
              (calls[i].kind = "search" /\ Settles(i, "committed"))
                  => (loading' = FALSE /\ CommitsFetched(i) /\ error' = "")
        /\ \A i \in Ids :
              (calls[i].kind = "search" /\ Settles(i, "failed"))
                  => (loading' = FALSE /\ error' # "" /\ gifs' = gifs) ]_vars

C4_SuccessClearsError ==
    \A i \in Ids : (JustSettled(i) /\ calls[i].settled = "committed") => error = ""

(***************************************************************************)
(* C5: searchGifs with a blank or whitespace-only query is a no-op: it     *)
(* changes none of loading, error and gifs and issues no request.          *)
(***************************************************************************)
C5_BlankSearchNoOp ==
    [][ \A q \in Queries :
            (IsBlank(q) /\ searchGifs(q)) => UNCHANGED <<loading, error, gifs, calls>> ]_vars

(***************************************************************************)
(* C6: fetchTrendingGifs sets loading to true at once, whatever the state  *)
(* it is invoked in, and starts its request without validating anything.   *)
(***************************************************************************)
C6_TrendingSetsLoading ==
    lastOp.op \in {"mount", "fetchTrendingGifs"}
        => /\ loading = TRUE
           /\ lastOp.id = Len(calls)
           /\ calls[lastOp.id].kind = "trending"
           /\ calls[lastOp.id].adapter = "pending"

\* invoked in the Failed state while another call was still in flight
C6_Witness ==
    /\ lastOp.op = "fetchTrendingGifs"
    /\ loading = TRUE
    /\ error # ""
    /\ \E i \in Ids : i < lastOp.id /\ Pending(i)

(***************************************************************************)
(* C7: clearError, in any state, sets error to "" and leaves loading, gifs *)
(* and the calls in flight as they are; it starts no request.              *)
(***************************************************************************)
C7_ClearErrorFrame ==
    [][ DismissError => (error' = "" /\ UNCHANGED <<loading, gifs, calls>>) ]_vars

\* clearError ran while a call was loading, after an earlier call had failed
C7_Witness ==
    /\ lastOp.op = "clearError"
    /\ error = ""
    /\ loading = TRUE
    /\ \E i \in Ids : Pending(i)
    /\ \E i \in Ids : calls[i].settled = "failed"

(***************************************************************************)
(* C8: in every reachable state a non-empty error implies loading = false. *)
(***************************************************************************)
C8_ErrorImpliesNotLoading == error # "" => loading = FALSE

(***************************************************************************)
(* C9: while loading is true no call has committed gifs or error since the *)
(* call that set loading to true began, also when an overlapping call      *)
(* settles during that time.                                               *)
(***************************************************************************)
C9_LoadingMeansNoCommit == loading = TRUE => committed = FALSE

\* a later call settled while the trending call that set loading is pending
C9_Witness ==
    \E i, j \in Ids :
        /\ j < i
        /\ calls[j].kind = "trending"
        /\ Pending(j)
        /\ JustSettled(i)
        /\ committed = TRUE

(***************************************************************************)
(* C10: at any time at most one search call and at most one trending call  *)
(* is in flight.                                                           *)
(***************************************************************************)
C10_AtMostOneInFlightPerKind ==
    /\ Cardinality(InFlight("search")) <= 1
    /\ Cardinality(InFlight("trending")) <= 1

(***************************************************************************)
(* C10 as amended: there is no limit per kind.  Every searchGifs and every *)
(* fetchTrendingGifs adds one call to those in flight and leaves the calls *)
(* already pending as they are, so a second search started while a first   *)
(* is pending gives two search requests pending at once.                   *)
(***************************************************************************)
C10_EveryCallAddsOneInFlight ==
    [][ /\ (\E q \in Queries : searchGifs(q))
              => /\ InFlight("search")' = InFlight("search") \cup {Len(calls) + 1}
                 /\ InFlight("trending")' = InFlight("trending")
        /\ (Mount \/ LoadTrending)
              => /\ InFlight("trending")' = InFlight("trending") \cup {Len(calls) + 1}
                 /\ InFlight("search")' = InFlight("search") ]_vars

\* two search requests pending at once
C10_Witness ==
    /\ lastOp.op = "searchGifs"
    /\ Cardinality(InFlight("search")) = 2
    /\ \A i \in InFlight("search") : calls[i].adapter = "pending"

\* the step stores in error the message of call i's kind for the failure the
\* call met: the rejection arriving in the step, or a response without body
WritesOwnError(i) ==
    LET prefix == IF calls[i].kind = "trending" THEN "Failed to fetch trending GIFs: "
                                                ELSE "Failed to search for a GIF: "
        noData == IF calls[i].kind = "trending" THEN "No data when fetch trending GIFs"
                                                ELSE "No data when search for a GIF"
    IN  \/ \E m \in Causes : AdapterReject(i, m) /\ error' = prefix \o m
        \/ calls'[i].adapter = "resolved" /\ error' = prefix \o noData

\* the step leaves every call but i as it is
OthersUntouched(i) == \A j \in Ids \ {i} : calls'[j] = calls[j]

C12_TrendingOncePerMount ==
    [][ /\ Mount => /\ mounted = FALSE
                    /\ calls' = Append(calls, NewCall("trending", TrendingParams))
                    /\ Len(calls') = 1
        /\ lastOp'.op = "mount" => (lastOp.op \in {"init", "mount"} /\ lastOp'.id = 1)
        /\ (Settles(1, "committed")
              /\ \E i \in Ids : calls[i].kind = "search" /\ calls[i].settled = "committed")
                => (calls[1].kind = "trending" /\ CommitsFetched(1)) ]_vars

\* the mount's trending call committed after a search that overlapped it
C12_Witness ==
    /\ JustSettled(1)
    /\ calls[1].kind = "trending"
    /\ calls[1].settled = "committed"
    /\ \E i \in Ids : calls[i].kind = "search" /\ calls[i].settled = "committed"
    /\ gifs \in {JsArray(l) : l \in GifLists}

(***************************************************************************)
(* C13: within one call neither gifs nor error is committed before both    *)
(* the request and the delay timer of that call have settled.              *)
(***************************************************************************)
C13_NoCommitBeforeBothSettled ==
    \A i \in Ids :
        calls[i].settled # "no" => (calls[i].adapter # "pending" /\ calls[i].timer = "fired")

(***************************************************************************)
(* C13 as amended: gifs is committed only after both the request and the   *)
(* timer of the call have settled, and so is the error of a response       *)
(* without body; the error of a rejected request is committed at the       *)
(* rejection, with the timer possibly still pending.                       *)
(***************************************************************************)
C13_JoinForSuccessOnly ==
    \A i \in Ids :
        /\ calls[i].settled = "committed"
              => (calls[i].adapter = "resolved" /\ calls[i].timer = "fired")
        /\ (calls[i].settled = "failed" /\ calls[i].adapter = "resolved")
              => calls[i].timer = "fired"
        /\ (calls[i].settled = "failed" /\ calls[i].timer = "pending")
              => calls[i].adapter = "rejected"
        /\ calls[i].settled # "no" => calls[i].adapter # "pending"

\* one call committed after its join while another failed before its timer fired
C13_Witness ==
    \E i, j \in Ids :
        /\ calls[i].settled = "committed"
        /\ calls[i].timer = "fired"
        /\ calls[j].settled = "failed"
        /\ calls[j].adapter = "rejected"
        /\ calls[j].timer = "pending"
        /\ error # ""

(***************************************************************************)
(* C14: a request rejected while the call's timer is still pending puts    *)
(* the call in Failed at the rejection: right after the rejection the call *)
(* has settled as failed, error is set and loading is false.               *)
(***************************************************************************)
C14_RejectFailsAtOnce ==
    lastOp.op = "reject"
        => /\ calls[lastOp.id].settled = "failed"
           /\ calls[lastOp.id].adapter = "rejected"
           /\ error # ""
           /\ loading = FALSE

\* the rejection arrived before the timer of the call had fired
C14_Witness ==
    /\ lastOp.op = "reject"
    /\ calls[lastOp.id].timer = "pending"
    /\ calls[lastOp.id].settled = "failed"
    /\ error # ""
    /\ loading = FALSE

\* the messages a failure of each kind can carry
TrendingMessages == Causes \cup {"No data when fetch trending GIFs"}
SearchMessages == Causes \cup {"No data when search for a GIF"}

(***************************************************************************)
(* C15: a failed call stores a message fixed per kind: a rejected          *)
(* fetchTrendingGifs ends with loading false and error exactly "Failed to  *)
(* fetch trending GIFs" whatever the cause, a rejected searchGifs with a   *)
(* different message, and error never holds any other value.               *)
(***************************************************************************)
C15_FixedMessagePerKind ==
    /\ \A i \in Ids :
          (JustSettled(i) /\ calls[i].kind = "trending" /\ calls[i].settled = "failed")
              => (loading = FALSE /\ error = "Failed to fetch trending GIFs")
    /\ \A i \in Ids :
          (JustSettled(i) /\ calls[i].kind = "search" /\ calls[i].settled = "failed")
              => (loading = FALSE /\ error = "Failed to search for a GIF")
    /\ error \in {"", "Failed to fetch trending GIFs", "Failed to search for a GIF"}

(***************************************************************************)
(* C15 as amended: the message is specific to the kind by its prefix and   *)
(* carries the cause: a failed fetchTrendingGifs ends with loading false   *)
(* and error = "Failed to fetch trending GIFs: " followed by the message   *)
(* of the failure, a failed searchGifs with "Failed to search for a GIF: " *)
(* followed by it, and every non-empty error has one of the two forms.     *)
(***************************************************************************)
C15_KindPrefixedMessage ==
    /\ \A i \in Ids :
          (JustSettled(i) /\ calls[i].kind = "trending" /\ calls[i].settled = "failed")
              => /\ loading = FALSE
                 /\ error \in {"Failed to fetch trending GIFs: " \o m : m \in TrendingMessages}
    /\ \A i \in Ids :
          (JustSettled(i) /\ calls[i].kind = "search" /\ calls[i].settled = "failed")
              => /\ loading = FALSE
                 /\ error \in {"Failed to search for a GIF: " \o m : m \in SearchMessages}
    /\ error \in {""}
          \cup {"Failed to fetch trending GIFs: " \o m : m \in TrendingMessages}
          \cup {"Failed to search for a GIF: " \o m : m \in SearchMessages}

\* a trending load failed on a 500 answer after a search had failed on the network
C15_Witness ==
    \E i \in Ids :
        /\ JustSettled(i)
        /\ calls[i].kind = "trending"
        /\ calls[i].settled = "failed"
        /\ error = "Failed to fetch trending GIFs: Request failed with status code 500"
        /\ \E j \in Ids : calls[j].kind = "search" /\ calls[j].settled = "failed"

(***************************************************************************)
(* C16: a response whose body lacks the data field is treated as a         *)
(* failure, so gifs is never replaced by a missing list: in every          *)
(* reachable state gifs is a sequence.                                     *)
(***************************************************************************)
C16_ItemsAlwaysSequence == gifs.tag = "array"

C18_OneRequestPerInvocation ==
    [][ /\ Len(calls') \in {Len(calls), Len(calls) + 1}
        /\ ((\E q \in Queries : searchGifs(q)) \/ Mount \/ LoadTrending)
              => /\ Len(calls') = Len(calls) + 1
                 /\ calls'[Len(calls')].adapter = "pending"
                 /\ \A i \in Ids : calls'[i] = calls[i]
        /\ Len(calls') = Len(calls) + 1
              => lastOp'.op \in {"mount", "searchGifs", "fetchTrendingGifs"}
        /\ \A i \in Ids :
              calls[i].adapter # "pending" => calls'[i].adapter = calls[i].adapter
        /\ DismissError => calls' = calls ]_vars

\* a call failed, the error was dismissed and no request is in flight
C18_Witness ==
    /\ lastOp.op = "clearError"
    /\ \E i \in Ids : calls[i].settled = "failed"
    /\ \A i \in Ids : calls[i].adapter # "pending"
    /\ Len(calls) < MaxCalls

(***************************************************************************)
(* C19: a lookup of the store outside a GiphySearchProvider throws an      *)
(* error with a describing message and never returns undefined; inside     *)
(* the provider it returns the provider's value.                           *)
(***************************************************************************)
C19_LookupFailsFast ==
    LET outside == useGiphySearchContext(useContext(FALSE))
        within  == useGiphySearchContext(useContext(TRUE))
    IN  /\ outside.threw
        /\ outside.message # ""
        /\ ~within.threw
        /\ within.value = [loading |-> loading, error |-> error, gifs |-> gifs]
        /\ within.value # JsUndefined

\* the mounted view reads a loading store with results while a lookup outside throws
C19_Witness ==
    /\ mounted
    /\ loading = TRUE
    /\ gifs \in {JsArray(l) : l \in GifLists}
    /\ useGiphySearchContext(useContext(TRUE)).value.loading = TRUE
    /\ useGiphySearchContext(useContext(TRUE)).value.gifs = gifs
    /\ useGiphySearchContext(useContext(FALSE)).threw

\* text is a prefix of phrase
IsPrefix(text, phrase) ==
    /\ Len(text) <= Len(phrase)
    /\ text = SubSeq(phrase, 1, Len(text))

\* the animator state on display
AnimatorState == <<index, placeholder, isDeleted>>

(***************************************************************************)
(* C25: in every reachable state of the animator the text on display is a  *)
(* prefix of phrases[index], of a length from 0 to the length of that      *)
(* phrase, and index is a valid index into phrases.                        *)
(***************************************************************************)
C25_TextIsPrefixOfCurrent ==
    /\ index \in 0 .. Len(phrases) - 1
    /\ IsPrefix(placeholder, phrases[index + 1])
    /\ Len(placeholder) \in 0 .. Len(phrases[index + 1])

\* the second phrase is being deleted: one of its two characters is left
C25_Witness ==
    /\ animated
    /\ phrases = ViewPhrases
    /\ index = 1
    /\ isDeleted
    /\ placeholder = <<"c">>

\* the states an animator over ["ab", "cd"] goes through, in order
AbCdCycle ==
    << <<0, <<>>, FALSE>>,
       <<0, <<"a">>, FALSE>>,
       <<0, <<"a", "b">>, FALSE>>,
       <<0, <<"a", "b">>, TRUE>>,
       <<0, <<"a">>, TRUE>>,
       <<0, <<>>, TRUE>>,
       <<1, <<>>, FALSE>>,
       <<1, <<"c">>, FALSE>>,
       <<1, <<"c", "d">>, FALSE>>,
       <<1, <<"c", "d">>, TRUE>>,
       <<1, <<"c">>, TRUE>>,
       <<1, <<>>, TRUE>> >>

(***************************************************************************)
(* C26: over ["ab", "cd"] a mounted animator starts at the empty text and  *)
(* shows "", "a", "ab", "ab" (held), "a", "", "c", "cd", "cd" (held), "c", *)
(* "", "a", ...: every step takes it from one state of that cycle to the   *)
(* next, and as long as it stays mounted it comes back to every state of   *)
(* the cycle again and again.  Over any phrase list, typing adds to the    *)
(* text up to the full phrase, deleting starts only from the full phrase,  *)
(* and the index moves to the next phrase, in list order, only from the    *)
(* empty text.                                                             *)
(***************************************************************************)
C26_TypeHoldDeleteCycle ==
    /\ [][ /\ (~animated /\ animated' /\ phrases = ViewPhrases)
                => AnimatorState' = AbCdCycle[1]
           /\ (animated /\ animated' /\ AnimatorState' # AnimatorState)
                => /\ phrases = ViewPhrases
                        => \E k \in DOMAIN AbCdCycle :
                              /\ AnimatorState = AbCdCycle[k]
                              /\ AnimatorState' = AbCdCycle[(k % Len(AbCdCycle)) + 1]
                   /\ (~isDeleted /\ placeholder' # placeholder)
                        => /\ placeholder' = SubSeq(phrases[index + 1], 1, Len(placeholder) + 1)
                           /\ Len(placeholder) < Len(phrases[index + 1])
                   /\ (~isDeleted /\ isDeleted')
                        => (placeholder = phrases[index + 1] /\ placeholder' = placeholder)
                   /\ (isDeleted /\ placeholder' # placeholder)
                        => placeholder' = SubSeq(placeholder, 1, Len(placeholder) - 1)
                   /\ (isDeleted /\ ~isDeleted')
                        => /\ placeholder = <<>> /\ placeholder' = <<>>
                           /\ index' = (index + 1) % Len(phrases) ]_vars
    /\ (phrases = ViewPhrases /\ <>[]animated)
          => \A k \in DOMAIN AbCdCycle : []<>(AnimatorState = AbCdCycle[k])

\* the animator has deleted "cd" and is back at the empty text of "ab"
C26_Witness ==
    /\ animated
    /\ phrases = ViewPhrases
    /\ lastOp = Op("advance", 1)
    /\ AnimatorState = AbCdCycle[1]

(***************************************************************************)
(* C27: when the component owning the animator unmounts, the pending timer *)
(* (if any) is cancelled: while no instance is mounted no animator timer   *)
(* is pending, no animator step is enabled and the animator state does not *)
(* change, whichever phase the instance was in.                            *)
(***************************************************************************)
C27_UnmountCancelsTimer ==
    /\ [](~animated => /\ timers = {}
                       /\ timeout = NoTimer
                       /\ ~ENABLED (EffectTask \/ \E t \in timers : TimerTask(t)))
    /\ [][ (~animated /\ ~animated') => UNCHANGED <<placeholder, isDeleted, index, timers>> ]_vars

\* unmounted in the pause: the full phrase was held and its 1500 ms timer pending
C27_Witness ==
    /\ lastOp.op = "animatorUnmount"
    /\ ~animated
    /\ ~isDeleted
    /\ placeholder = phrases[index + 1]
    /\ placeholder # <<>>
    /\ timers = {}

(***************************************************************************)
(* C28: an animator unmounted in any state and mounted again starts from   *)
(* index 0, the empty text and the typing phase (deleting flag false),     *)
(* with the timer of that state pending, wherever the previous instance    *)
(* stopped.                                                                *)
(***************************************************************************)
C28_RemountStartsOver ==
    [][ (~animated /\ animated')
            => /\ index' = 0
               /\ placeholder' = <<>>
               /\ isDeleted' = FALSE
               /\ timers' = {useEffect(<<>>, FALSE, 0)}
               /\ timeout' = useEffect(<<>>, FALSE, 0) ]_vars

\* the second instance has started over
C28_Witness ==
    /\ lastOp = Op("animatorMount", 2)
    /\ animated
    /\ AnimatorState = <<0, <<>>, FALSE>>
    /\ Cardinality(timers) = 1

(***************************************************************************)
(* C30: the index of a mounted animator changes only in a state where the  *)
(* deleting flag is set and the text is empty; it then becomes             *)
(* (index + 1) mod length(phrases), the last phrase wrapping to 0, and the *)
(* deleting flag is reset in the same step with the text still empty; and  *)
(* that is the only step such a state takes.                               *)
(***************************************************************************)
C30_AdvanceOnlyFromEmpty ==
    [][ (animated /\ animated')
            => /\ index' # index => (isDeleted /\ placeholder = <<>>)
               /\ (isDeleted /\ placeholder = <<>> /\ AnimatorState' # AnimatorState)
                     => /\ index' = (index + 1) % Len(phrases)
                        /\ index' \in 0 .. Len(phrases) - 1
                        /\ isDeleted' = FALSE
                        /\ placeholder' = <<>> ]_vars

\* the last of two phrases was deleted and the index wrapped to 0
C30_Witness ==
    /\ animated
    /\ Len(phrases) = 2
    /\ lastOp = Op("advance", 1)
    /\ index = 0
    /\ ~isDeleted
    /\ placeholder = <<>>

(***************************************************************************)
(* C24: there is no timeout and no cancellation: once a call has been      *)
(* started, loading is false only if a call has settled since loading was  *)
(* last set, a call settles only once its request has been answered or    *)
(* rejected, and as long as no call has settled loading stays true, also   *)
(* after the timers of the calls have fired.                               *)
(***************************************************************************)
C24_LoadingFallsOnlyAtSettlement ==
    /\ (calls # <<>> /\ loading = FALSE)
          => (committed /\ \E i \in Ids : calls[i].settled # "no")
    /\ \A i \in Ids : calls[i].adapter = "pending" => calls[i].settled = "no"
    /\ (calls # <<>> /\ \A i \in Ids : calls[i].settled = "no") => loading = TRUE

\* the timer of the trending call has fired, its request is still pending,
\* the error of nothing has been dismissed, and loading is still true
C24_Witness ==
    /\ calls # <<>>
    /\ calls[1].kind = "trending"
    /\ calls[1].timer = "fired"
    /\ calls[1].adapter = "pending"
    /\ lastOp.op = "clearError"
    /\ \A i \in Ids : calls[i].settled = "no"
    /\ loading = TRUE

(***************************************************************************)
(* C29: the timer of a call only ever fires, it never fails the call: a    *)
(* call that has failed had its request rejected or answered without data, *)
(* and when a call fails in the step of its timer (its request was not     *)
(* rejected before) the error written is the no-data message of a response *)
(* the call was holding.                                                   *)
(***************************************************************************)
C29_TimerNeverFailsCall ==
    /\ \A i \in Ids :
          /\ calls[i].timer \in {"pending", "fired"}
          /\ calls[i].settled = "failed" => calls[i].adapter \in {"rejected", "resolved"}
          /\ (calls[i].settled = "failed" /\ calls[i].timer = "pending")
                => calls[i].adapter = "rejected"
    /\ (lastOp.op = "timer" /\ calls[lastOp.id].settled = "failed"
                            /\ calls[lastOp.id].adapter # "rejected")
          => /\ calls[lastOp.id].adapter = "resolved"
             /\ error = IF calls[lastOp.id].kind = "trending"
                        THEN TrendingError("No data when fetch trending GIFs")
                        ELSE SearchError("No data when search for a GIF")

\* a search answered without data failed when its timer fired
C29_Witness ==
    /\ lastOp.op = "timer"
    /\ calls[lastOp.id].kind = "search"
    /\ calls[lastOp.id].settled = "failed"
    /\ calls[lastOp.id].adapter = "resolved"
    /\ error = "Failed to search for a GIF: No data when search for a GIF"

\* the tasks of the view that are no operation of the provider
ViewOnlyOps == {"setQuery", "tick", "advance", "copy", "copyFailed"}

\* the operations of the provider and the events that settle its calls
FetchOps == {"mount", "searchGifs", "fetchTrendingGifs", "clearError",
             "resolve", "reject", "timer"}

(***************************************************************************)
(* C21: loading, error and gifs change only through searchGifs,            *)
(* fetchTrendingGifs, clearError and the settlement of their calls: an     *)
(* edit of the query text, a tick or an advance of the placeholder         *)
(* animator and a copy to the clipboard, whether the write succeeds or     *)
(* fails, leave all three as they are.                                     *)
(***************************************************************************)
C21_OnlyFetchOpsChangeFetchState ==
    [][ /\ lastOp'.op \in ViewOnlyOps => UNCHANGED <<loading, error, gifs, calls>>
        /\ <<loading, error, gifs>>' # <<loading, error, gifs>>
              => /\ lastOp'.op \in FetchOps
                 /\ lastOp'.op \in {"resolve", "reject", "timer"}
                       => (Settles(lastOp'.id, "committed") \/ Settles(lastOp'.id, "failed")) ]_vars

\* a copy failed while results and an error were on display, the query had
\* been edited and the animator was in the middle of a phrase
C21_Witness ==
    /\ lastOp.op = "copyFailed"
    /\ clipboard = ""
    /\ gifs \in {JsArray(l) : l \in GifLists}
    /\ error # ""
    /\ query # <<>>
    /\ placeholder # <<>>
    /\ isDeleted

(***************************************************************************)
(* C23: the search request carries the query exactly as it was passed to   *)
(* searchGifs, leading and trailing whitespace included, and both requests *)
(* carry limit = 50 and the configured api_key; the trending request       *)
(* carries no query.                                                       *)
(***************************************************************************)
C23_RequestParameters ==
    /\ lastOp.op = "searchGifs"
          => calls[lastOp.id].params = [api_key |-> API_KEY, q |-> query, limit |-> 50]
    /\ lastOp.op = "mount"
          => calls[lastOp.id].params = [api_key |-> API_KEY, limit |-> 50]
    /\ \A i \in Ids :
          calls[i].adapter = "pending"
              => /\ calls[i].params.limit = 50
                 /\ calls[i].params.api_key = API_KEY
                 /\ DOMAIN calls[i].params = IF calls[i].kind = "search"
                                             THEN {"api_key", "q", "limit"}
                                             ELSE {"api_key", "limit"}

\* a query with a leading and a trailing blank was submitted as it is
C23_Witness ==
    /\ lastOp.op = "searchGifs"
    /\ query = <<" ", "a", " ">>
    /\ calls[lastOp.id].kind = "search"
    /\ calls[lastOp.id].adapter = "pending"
    /\ calls[lastOp.id].params.q = <<" ", "a", " ">>
    /\ calls[1].params = [api_key |-> API_KEY, limit |-> 50]

(***************************************************************************)
(* C22: in the standalone handlers every successful call keeps loading     *)
(* true for at least the minimum delay (1000 ms) counted from that call's  *)
(* own start, also a call started after the promise of minDelay has        *)
(* resolved: a committed call settled no sooner than 1000 ms after it      *)
(* started.                                                                *)
(***************************************************************************)
C22_FloorFromOwnStart ==
    \A i \in Ids :
        calls[i].settled = "committed"
            => (spans[i].until - spans[i].from) * TickMs >= 1000

(***************************************************************************)
(* C31: the deleting flag of a mounted animator goes from false to true    *)
(* only in a state where the text is the full current phrase, and only in  *)
(* the step of the 1500 ms pause timer; no character is removed while the  *)
(* flag is false, and none is added while it is set.                       *)
(***************************************************************************)
C31_DeleteOnlyAfterPause ==
    [][ (animated /\ animated')
            => /\ (~isDeleted /\ isDeleted')
                     => /\ placeholder = phrases[index + 1]
                        /\ placeholder' = placeholder
                        /\ lastOp' = Op("tick", 1500)
                        /\ timers = {[delay |-> 1500, sets |-> "isDeleted", text |-> <<>>]}
               /\ ~isDeleted => Len(placeholder') >= Len(placeholder)
               /\ isDeleted => Len(placeholder') <= Len(placeholder) ]_vars

\* the pause timer has fired on the full second phrase: deleting begins
C31_Witness ==
    /\ animated
    /\ lastOp = Op("tick", 1500)
    /\ isDeleted
    /\ index = 1
    /\ placeholder = phrases[2]
    /\ Len(placeholder) > 0
    /\ timers = {[delay |-> 80, sets |-> "placeholder",
                  text |-> SubSeq(placeholder, 1, Len(placeholder) - 1)]}

(***************************************************************************)
(* C32: every change of the text of a mounted animator changes its length  *)
(* by exactly one: the tick of a 130 ms timer appends the next character   *)
(* of the current phrase, the tick of an 80 ms timer removes the last      *)
(* character; the pause step and the advance step leave the text as it is. *)
(***************************************************************************)
C32_OneCharacterPerTick ==
    [][ (animated /\ animated')
            => /\ placeholder' # placeholder
                     => \/ /\ lastOp' = Op("tick", 130)
                           /\ ~isDeleted /\ ~isDeleted'
                           /\ Len(placeholder') = Len(placeholder) + 1
                           /\ placeholder' = Append(placeholder,
                                                    phrases[index + 1][Len(placeholder) + 1])
                        \/ /\ lastOp' = Op("tick", 80)
                           /\ isDeleted /\ isDeleted'
                           /\ Len(placeholder') = Len(placeholder) - 1
                           /\ placeholder' = SubSeq(placeholder, 1, Len(placeholder) - 1)
               /\ lastOp'.op = "tick" => lastOp'.id \in {80, 130, 1500}
               /\ (lastOp' = Op("tick", 1500) \/ lastOp'.op = "advance")
                     => placeholder' = placeholder ]_vars

\* the third character of a three-character phrase has just been typed
C32_Witness ==
    /\ animated
    /\ lastOp = Op("tick", 130)
    /\ ~isDeleted
    /\ Len(placeholder) = 3
    /\ placeholder = phrases[index + 1]

(***************************************************************************)
(* C36: at any time at most one animator timer is pending: the timer       *)
(* pending is the one the last run of the effect started, and for a        *)
(* mounted animator it is the timer of the state on display, so no tick of *)
(* an earlier state can fire after the state has changed.                  *)
(***************************************************************************)
C36_AtMostOneTimer ==
    /\ Cardinality(timers) <= 1
    /\ timers \subseteq {timeout}
    /\ animated => /\ timeout = useEffect(placeholder, isDeleted, index)
                   /\ timers = {timeout} \ {NoTimer}

\* a second instance is deleting and holds the one timer there is
C36_Witness ==
    /\ animated
    /\ instance = 2
    /\ isDeleted
    /\ placeholder # <<>>
    /\ Cardinality(timers) = 1
    /\ timeout.delay = 80

(***************************************************************************)
(* C37: over every non-empty phrase list, a single phrase and a list with  *)
(* an empty-string phrase included, a mounted animator never stalls: in    *)
(* every state a timer is pending or the advancing effect is due, and, the *)
(* timers and effects being run, an animator that stays mounted shows each *)
(* phrase in full (text = phrases[i] with index = i) again and again.      *)
(***************************************************************************)
C37_NeverStalls ==
    /\ [](animated => (timers # {} \/ ENABLED EffectTask))
    /\ \A ps \in PhraseLists : \A i \in DOMAIN ps :
          (phrases = ps /\ <>[]animated)
              => []<>(index = i - 1 /\ placeholder = ps[i] /\ ~isDeleted)

\* the empty-string phrase is on display in full, in its pause
C37_Witness ==
    /\ animated
    /\ Len(phrases) = 2
    /\ phrases[index + 1] = <<>>
    /\ placeholder = <<>>
    /\ ~isDeleted
    /\ lastOp.op = "advance"
    /\ timeout.delay = 1500

(***************************************************************************)
(* C34: whenever at least one searchGifs or fetchTrendingGifs call is in   *)
(* flight loading is true; in particular the settlement of the first of    *)
(* two overlapping calls does not make loading false while the second is   *)
(* still pending.                                                          *)
(***************************************************************************)
C34_InFlightImpliesLoading ==
    (\E i \in Ids : Pending(i)) => loading = TRUE

(***************************************************************************)
(* C35: whenever no call is in flight (initially, and after every call     *)
(* started has settled, however searches, trending loads and clearError    *)
(* were interleaved) loading is false: it is never left at true.           *)
(***************************************************************************)
C35_IdleImpliesNotLoading ==
    (\A i \in Ids : ~Pending(i)) => loading = FALSE

\* three overlapping calls have all settled, a search last, after a clearError
C35_Witness ==
    /\ Len(calls) = 3
    /\ \A i \in Ids : ~Pending(i)
    /\ \E i \in Ids : calls[i].kind = "trending" /\ i > 1
    /\ \E i \in Ids : calls[i].kind = "search" /\ JustSettled(i) /\ calls[i].timer = "pending"
    /\ error # ""
    /\ loading = FALSE

(***************************************************************************)
(* C38: a successful call commits the fetched list as it is: in the step   *)
(* in which a call commits, gifs becomes the list the endpoint returned to *)
(* that call, the same elements in the same order, whatever gifs held      *)
(* before.                                                                 *)
(***************************************************************************)
C38_CommitsVerbatim ==
    [][ \A i \in Ids :
            Settles(i, "committed")
                => /\ CommitsFetched(i)
                   /\ \A l \in GifLists :
                         (\/ calls[i].body = [truthy |-> TRUE, data |-> JsArray(l)]
                          \/ AdapterResolve(i, [truthy |-> TRUE, data |-> JsArray(l)]))
                             => (gifs'.tag = "array" /\ gifs'.elems = l) ]_vars

\* the two-element list was committed, in server order, over a list on display
C38_Witness ==
    \E i \in Ids :
        /\ JustSettled(i)
        /\ calls[i].settled = "committed"
        /\ gifs = JsArray(<<"g2", "g1">>)
        /\ \E j \in Ids : j # i /\ calls[j].settled = "committed"

(***************************************************************************)
(* C33: the placeholder animator is independent of the fetch activity: no  *)
(* fetch event (a submitted search, the settlement of a call, the firing   *)
(* of a call's delay timer) and no edit of the query or copy suspends,     *)
(* resets or advances it, so runs that differ only in their fetch events   *)
(* show the same sequence of animator states: every such step leaves the   *)
(* animator's state and its pending timer as they are.                     *)
(***************************************************************************)
C33_FetchLeavesAnimatorAlone ==
    [][ lastOp'.op \in (FetchOps \cup ViewOnlyOps) \ {"mount", "tick", "advance"}
            => UNCHANGED <<placeholder, isDeleted, index, timers, timeout, animated>> ]_vars

====
